---- MODULE Spec2Model ----
(***************************************************************************)
(* noc-watch: WiFiMonitor.  One goroutine (startMonitoring) serves the     *)
(* tickers in a select loop, runs the probes, records their results in     *)
(* dhcpTests / pingTests / totalCount / successCount, formats the          *)
(* dashboard texts (updateUI) and appends to the log file                  *)
(* (writeResultsToFile).  In TUI mode a second goroutine, the tview event  *)
(* loop (app.Run), executes the closures queued by QueueUpdateDraw.        *)
(*                                                                         *)
(* Wall-clock values (Timestamp, "Current Time") are not part of the       *)
(* state: the position of an entry in its history is its chronological     *)
(* position.  Durations are symbolic integers (0 = the Go zero value).     *)
(*                                                                         *)
(* Spec, SpecProbe and SpecChart leave the tickers' timing open: any       *)
(* ticker case may be ready whenever the loop is at its select.  SpecTimed *)
(* adds the time.Ticker channels and the time, in seconds since the        *)
(* tickers were created (FairTimed: and the program keeps running).        *)
(* SpecLife adds the termination of the process.  SpecMode runs, next to   *)
(* the loop, the loop of the other mode on the same fires, and SpecV6 a    *)
(* loop whose ping6 commands end differently.                              *)
(***************************************************************************)
EXTENDS Integers, Sequences, FiniteSets, TLC

\* ------------------------------------------------------------------ bounds
MaxServed == 3       \* probe and log ticks served in Spec
MaxQueue == 1        \* closures that fit in the dashboard's update queue
MaxProbeServed == 1  \* probe and log ticks served in SpecProbe
MaxChartPing == 11   \* connectivity ticks served in SpecChart
MaxChartDhcp == 1    \* lease ticks served in SpecChart
MaxTime == 305       \* seconds of a run that SpecTimed follows
MaxLifeServed == 2   \* probe and log ticks served in SpecLife
MaxModeServed == 3   \* probe and log ticks served in SpecMode
MaxV6Served == 2     \* probe and log ticks served in SpecV6

\* --------------------------------------------------------- program constants
ChartLimit == 10     \* "if i >= 10 { break }"
DhcpPeriod == 300    \* time.NewTicker(5 * time.Minute), in seconds
PingPeriod == 60     \* time.NewTicker(1 * time.Minute)
UiPeriod == 1        \* time.NewTicker(1 * time.Second)
FilePeriod == 60     \* time.NewTicker(1 * time.Minute)

\* symbolic measured durations
RenewElapsed == 2    \* time.Since(start) of a completed renewal
AvgLatency == 15     \* the "avg" field parsed from ping's output
PingElapsed == 40    \* time.Since(start) when no "avg" line is found

VARIABLES
    headless,       \* WiFiMonitor.headless
    dhcpTests,      \* WiFiMonitor.dhcpTests
    pingTests,      \* WiFiMonitor.pingTests
    successCount,   \* WiFiMonitor.successCount
    totalCount,     \* WiFiMonitor.totalCount
    pc,             \* position of the startMonitoring goroutine
    env,            \* what the external commands of the running probe did
    test,           \* the local variable test of the select case being served
    updates,        \* closures queued by QueueUpdateDraw, not yet executed
    statsView,      \* text of WiFiMonitor.statsView
    chartView,      \* text of WiFiMonitor.chartView
    logView,        \* text of WiFiMonitor.logView
    logFile,        \* lines of the file WiFiMonitor.logFile
    stdout,         \* number of "Error writing to file" lines printed
    now,            \* seconds since startMonitoring created its tickers
    timers,         \* the time.Ticker of each select case
    served,         \* ticks received from dhcpTicker.C and pingTicker.C
    alive,          \* the process has not been terminated
    twin            \* the aggregator of a second loop on the same fires

vars == <<headless, dhcpTests, pingTests, successCount, totalCount, pc, env,
          test, updates, statsView, chartView, logView, logFile, stdout,
          now, timers, served, alive, twin>>

clock == <<now, timers, served>>

aggregator == <<dhcpTests, pingTests, successCount, totalCount>>
views == <<statsView, chartView, logView>>

\* ------------------------------------------------------------ environment
\* Outcome of the external commands of one probe run.
NoEnv ==
    [dhclientErr |-> FALSE, catErr |-> FALSE, nameserver |-> FALSE,
     renewElapsed |-> 0, ping4Err |-> FALSE, ping6Err |-> FALSE,
     latErr |-> FALSE, avgLine |-> FALSE, avg |-> 0, pingElapsed |-> 0]

DhcpEnvs ==
    { [dhclientErr |-> FALSE, catErr |-> FALSE, nameserver |-> TRUE],
      [dhclientErr |-> TRUE,  catErr |-> FALSE, nameserver |-> TRUE],
      [dhclientErr |-> FALSE, catErr |-> TRUE,  nameserver |-> TRUE],
      [dhclientErr |-> FALSE, catErr |-> FALSE, nameserver |-> FALSE] }

LatencyEnvs ==
    { [latErr |-> TRUE,  avgLine |-> FALSE, avg |-> 0],
      [latErr |-> FALSE, avgLine |-> TRUE,  avg |-> AvgLatency],
      [latErr |-> FALSE, avgLine |-> TRUE,  avg |-> 0],
      [latErr |-> FALSE, avgLine |-> FALSE, avg |-> 0] }

MkEnv(d, p4, p6, l) ==
    [dhclientErr |-> d.dhclientErr, catErr |-> d.catErr,
     nameserver |-> d.nameserver, renewElapsed |-> RenewElapsed,
     ping4Err |-> p4, ping6Err |-> p6,
     latErr |-> l.latErr, avgLine |-> l.avgLine, avg |-> l.avg,
     pingElapsed |-> PingElapsed]

Envs == { MkEnv(d, p4, p6, l) : d \in DhcpEnvs, p4 \in BOOLEAN,
                                p6 \in BOOLEAN, l \in LatencyEnvs }

\* The environments of Spec: every command works, or exactly one fails.
CoreEnvs ==
    { e \in Envs :
        /\ e.latErr \/ (e.avgLine /\ e.avg > 0)
        /\ Cardinality({f \in {"dhclientErr", "catErr", "ping4Err",
                                "ping6Err", "latErr"} : e[f]})
           + (IF e.nameserver THEN 0 ELSE 1) <= 1 }

\* The environments of SpecChart: everything works, or everything fails.
ChartEnvs ==
    { MkEnv([dhclientErr |-> b, catErr |-> FALSE, nameserver |-> TRUE], b, b,
            [latErr |-> b, avgLine |-> ~b, avg |-> IF b THEN 0 ELSE AvgLatency])
        : b \in BOOLEAN }

\* ------------------------------------------------------------------ probes
\* The zero value of WiFiTest.
WiFiTest ==
    [DHCPRenewTime |-> 0, IPv4Connectivity |-> FALSE,
     IPv6Connectivity |-> FALSE, Latency |-> 0, Success |-> FALSE]

\* runDHCPRenew: <<duration, success>>
runDHCPRenew(e) ==
    IF e.dhclientErr THEN <<0, FALSE>>
    ELSE IF e.catErr THEN <<0, FALSE>>
    ELSE IF ~e.nameserver THEN <<0, FALSE>>
    ELSE <<e.renewElapsed, TRUE>>

checkIPv4Connectivity(e) == ~e.ping4Err

checkIPv6Connectivity(e) == ~e.ping6Err

measureLatency(e) ==
    IF e.latErr THEN 0
    ELSE IF e.avgLine THEN e.avg
    ELSE e.pingElapsed

\* Mutant: the overall success ignores IPv4 reachability.
runTestNoIPv4(e) ==
    LET dhcp == runDHCPRenew(e)
        v4 == checkIPv4Connectivity(e)
        v6 == checkIPv6Connectivity(e)
        lat == measureLatency(e)
    IN  [DHCPRenewTime |-> dhcp[1], IPv4Connectivity |-> v4,
         IPv6Connectivity |-> v6, Latency |-> lat,
         Success |-> dhcp[2] /\ (lat > 0)]

runTest(e) ==
    LET dhcp == runDHCPRenew(e)
        v4 == checkIPv4Connectivity(e)
        v6 == checkIPv6Connectivity(e)
        lat == measureLatency(e)
    IN  [DHCPRenewTime |-> dhcp[1], IPv4Connectivity |-> v4,
         IPv6Connectivity |-> v6, Latency |-> lat,
         Success |-> dhcp[2] /\ v4 /\ (lat > 0)]

\* Mutant: the connectivity probe succeeds only if IPv6 is reachable too.
runConnectivityTestNeedsIPv6(e) ==
    LET v4 == checkIPv4Connectivity(e)
        v6 == checkIPv6Connectivity(e)
        lat == measureLatency(e)
    IN  [DHCPRenewTime |-> 0, IPv4Connectivity |-> v4,
         IPv6Connectivity |-> v6, Latency |-> lat,
         Success |-> v4 /\ v6 /\ (lat > 0)]

\* Mutant: an unmeasured latency (0) is accepted.
runConnectivityTestZeroLatency(e) ==
    LET v4 == checkIPv4Connectivity(e)
        v6 == checkIPv6Connectivity(e)
        lat == measureLatency(e)
    IN  [DHCPRenewTime |-> 0, IPv4Connectivity |-> v4,
         IPv6Connectivity |-> v6, Latency |-> lat,
         Success |-> v4 /\ (lat >= 0)]

runConnectivityTest(e) ==
    LET v4 == checkIPv4Connectivity(e)
        v6 == checkIPv6Connectivity(e)
        lat == measureLatency(e)
    IN  [DHCPRenewTime |-> 0, IPv4Connectivity |-> v4,
         IPv6Connectivity |-> v6, Latency |-> lat,
         Success |-> v4 /\ (lat > 0)]

\* ------------------------------------------------------------- statistics
RECURSIVE Successes(_)
\* "for _, t := range tests { if t.Success { successes++ } }"
Successes(tests) ==
    IF tests = <<>> THEN 0
    ELSE (IF Head(tests).Success THEN 1 ELSE 0) + Successes(Tail(tests))

\* float64(s) / float64(n) * 100 as "%.2f" prints it, in hundredths of a
\* percent (no s/n within the bounds lies halfway between two hundredths).
Percent(s, n) == (2 * 10000 * s + n) \div (2 * n)

\* Mutant: the fraction is not scaled to a percentage.
RateNotScaled(s, n) == IF n > 0 THEN (2 * 100 * s + n) \div (2 * n) ELSE 0

\* "var rate float64; if n > 0 { rate = float64(s) / float64(n) * 100 }"
Rate(s, n) == IF n > 0 THEN Percent(s, n) ELSE 0

successRate == Rate(successCount, totalCount)
dhcpSuccessRate == Rate(Successes(dhcpTests), Len(dhcpTests))
pingSuccessRate == Rate(Successes(pingTests), Len(pingTests))

Min(a, b) == IF a < b THEN a ELSE b

\* ---------------------------------------------------------------- updateUI
Status(t) == IF t.Success THEN "[green]o" ELSE "[red]x"

\* "for i, test := range tests { if i >= 10 { break } ... }"
ChartWindow(tests) == SubSeq(tests, 1, Min(ChartLimit, Len(tests)))

statsText ==
    [title |-> "WiFi Quality Monitor - NOC Watch -",
     total |-> totalCount, success |-> successCount,
     failure |-> totalCount - successCount, successRate |-> successRate,
     classRates |-> <<dhcpSuccessRate, pingSuccessRate>>]

chartText ==
    [dhcp |-> [i \in 1..Len(ChartWindow(dhcpTests)) |->
                 [idx |-> i, status |-> Status(dhcpTests[i]),
                  DHCP |-> dhcpTests[i].DHCPRenewTime]],
     ping |-> [i \in 1..Len(ChartWindow(pingTests)) |->
                 [idx |-> i, status |-> Status(pingTests[i]),
                  IPv4 |-> pingTests[i].IPv4Connectivity,
                  IPv6 |-> pingTests[i].IPv6Connectivity,
                  Latency |-> pingTests[i].Latency]]]

logText ==
    [dhcp |-> IF Len(dhcpTests) > 0
              THEN LET latest == dhcpTests[Len(dhcpTests)]
                   IN  <<[DHCPRenew |-> latest.DHCPRenewTime,
                          Success |-> latest.Success]>>
              ELSE <<>>,
     ping |-> IF Len(pingTests) > 0
              THEN LET latest == pingTests[Len(pingTests)]
                   IN  <<[IPv4 |-> latest.IPv4Connectivity,
                          IPv6 |-> latest.IPv6Connectivity,
                          Latency |-> latest.Latency,
                          Success |-> latest.Success]>>
              ELSE <<>>]

\* The closure handed to QueueUpdateDraw: it captures the three strings.
Closure == [stats |-> statsText, chart |-> chartText, log |-> logText]

\* tview's QueueUpdateDraw: send on the bounded updates channel (blocks
\* while the channel is full).
QueueUpdateDraw(f) ==
    /\ Len(updates) < MaxQueue
    /\ updates' = Append(updates, f)

\* Mutant: updateUI without its headless guard.
updateUIUnguarded == QueueUpdateDraw(Closure)

updateUI ==
    IF headless
    THEN UNCHANGED updates
    ELSE QueueUpdateDraw(Closure)

\* ------------------------------------------------------ writeResultsToFile
\* Mutant: the record shows the first entry of each history, not the last.
LogRecordOldest ==
    <<[k |-> "header"]>>
    \o (IF Len(dhcpTests) > 0
        THEN <<[k |-> "DHCP Test", Success |-> dhcpTests[1].Success,
                Time |-> dhcpTests[1].DHCPRenewTime]>>
        ELSE <<>>)
    \o (IF Len(pingTests) > 0
        THEN <<[k |-> "Ping Test", Success |-> pingTests[1].Success,
                IPv4 |-> pingTests[1].IPv4Connectivity,
                IPv6 |-> pingTests[1].IPv6Connectivity,
                Latency |-> pingTests[1].Latency]>>
        ELSE <<>>)
    \o <<[k |-> "Total Tests", total |-> totalCount,
          success |-> successCount, rate |-> successRate],
         [k |-> "DHCP Success Rate", rate |-> dhcpSuccessRate],
         [k |-> "Ping Success Rate", rate |-> pingSuccessRate],
         [k |-> "delimiter"]>>

\* The lines the Fprintf calls of a complete write produce, in order.
LogRecord ==
    <<[k |-> "header"]>>
    \o (IF Len(dhcpTests) > 0
        THEN LET latest == dhcpTests[Len(dhcpTests)]
             IN  <<[k |-> "DHCP Test", Success |-> latest.Success,
                    Time |-> latest.DHCPRenewTime]>>
        ELSE <<>>)
    \o (IF Len(pingTests) > 0
        THEN LET latest == pingTests[Len(pingTests)]
             IN  <<[k |-> "Ping Test", Success |-> latest.Success,
                    IPv4 |-> latest.IPv4Connectivity,
                    IPv6 |-> latest.IPv6Connectivity,
                    Latency |-> latest.Latency]>>
        ELSE <<>>)
    \o <<[k |-> "Total Tests", total |-> totalCount,
          success |-> successCount, rate |-> successRate],
         [k |-> "DHCP Success Rate", rate |-> dhcpSuccessRate],
         [k |-> "Ping Success Rate", rate |-> pingSuccessRate],
         [k |-> "delimiter"]>>

MaxRecordLines == 7

\* openErr: os.OpenFile fails.  n: the number of Fprintf calls that succeed
\* (the next one, if any, fails and the function returns its error).
\* The result is <<lines appended, err # nil>>.
writeResultsToFile(openErr, n) ==
    IF openErr THEN <<<<>>, TRUE>>
    ELSE <<SubSeq(LogRecord, 1, n), n < Len(LogRecord)>>

\* Calls of writeResultsToFile so far: each ended with the delimiter written
\* or with an error printed.
Writes == stdout + Cardinality({i \in 1..Len(logFile) : logFile[i].k = "delimiter"})

\* ----------------------------------------------------------------- tickers
Tickers == {"dhcp", "ping", "ui", "file"}

\* Mutant: the lease ticker is created with the connectivity ticker's period.
PeriodLeaseEveryMinute(t) ==
    CASE t = "dhcp" -> PingPeriod
      [] t = "ping" -> PingPeriod
      [] t = "ui"   -> UiPeriod
      [] t = "file" -> FilePeriod

Period(t) ==
    CASE t = "dhcp" -> DhcpPeriod
      [] t = "ping" -> PingPeriod
      [] t = "ui"   -> UiPeriod
      [] t = "file" -> FilePeriod

\* The tickers the branch of startMonitoring creates.
Created == IF headless THEN {"dhcp", "ping", "file"} ELSE Tickers

\* A ticker: the time of its next tick, and whether a tick waits in its
\* channel (capacity 1).  when = 0: not created.
NoTicker == [when |-> 0, buffered |-> FALSE]

\* time.NewTicker(d): the first tick comes d after the creation.
NewTicker(d) == [when |-> now + d, buffered |-> FALSE]

\* Mutant: serving one ticker empties the channels of all of them.
ReceiveDrainsAll(ts, t) == [u \in Tickers |-> [ts[u] EXCEPT !.buffered = FALSE]]

\* <-ticker.C
Receive(ts, t) == [ts EXCEPT ![t].buffered = FALSE]

\* Mutant: a ticker that ticks is set to tick again one period after the
\* time at which the loop gets to see the tick.
ElapseFromNow(ts, d) ==
    [t \in Tickers |->
        IF ts[t].when = 0 \/ ts[t].when > now + d THEN ts[t]
        ELSE [when |-> now + d + Period(t), buffered |-> TRUE]]

\* d seconds pass: a ticker whose tick time comes puts one tick in its
\* channel, drops the ticks the channel has no room for, and keeps its
\* tick times at the multiples of its period.
Elapse(ts, d) ==
    [t \in Tickers |->
        IF ts[t].when = 0 \/ ts[t].when > now + d THEN ts[t]
        ELSE [when |-> ts[t].when
                       + ((now + d - ts[t].when) \div Period(t) + 1) * Period(t),
              buffered |-> TRUE]]

\* The time of the next tick of any ticker.
NextTick == CHOOSE w \in {timers[t].when : t \in Created} :
                \A t \in Created : w <= timers[t].when

\* How long the external commands of a probe take: the 2 s the renewal
\* sleeps (or the three echo requests take), or longer than the period of
\* the connectivity ticker.
ShortProbe == 2
LongProbe == PingPeriod + 1
ProbeTimes == {ShortProbe, LongProbe}

\* NewWiFiMonitor: empty histories, counters 0.
NewAggregator ==
    [dhcpTests |-> <<>>, pingTests |-> <<>>, successCount |-> 0,
     totalCount |-> 0]

\* -------------------------------------------------------------------- Init
\* main: NewWiFiMonitor, the widgets' initial texts, go startMonitoring.
Init ==
    /\ headless \in BOOLEAN
    /\ dhcpTests = <<>>
    /\ pingTests = <<>>
    /\ successCount = 0
    /\ totalCount = 0
    /\ pc = "start"
    /\ env = NoEnv
    /\ test = WiFiTest
    /\ updates = <<>>
    /\ statsView = IF headless THEN "" ELSE
          [title |-> "WiFi Quality Monitor", total |-> 0, success |-> 0,
           failure |-> 0, successRate |-> 0, classRates |-> <<>>]
    /\ chartView = IF headless THEN "" ELSE [dhcp |-> <<>>, ping |-> <<>>]
    /\ logView = IF headless THEN "" ELSE [dhcp |-> <<>>, ping |-> <<>>]
    /\ logFile = <<>>
    /\ stdout = 0
    /\ now = 0
    /\ timers = [t \in Tickers |-> NoTicker]
    /\ served = [t \in {"dhcp", "ping"} |-> 0]
    /\ alive = TRUE
    /\ twin = NewAggregator

\* ----------------------------------------------------------------- actions
\* startMonitoring up to the first select: the tickers are created and, in
\* TUI mode, the initial updateUI is made.
Start ==
    /\ pc = "start"
    /\ updateUI
    /\ pc' = "select"
    /\ UNCHANGED <<headless, aggregator, env, test, views, logFile, stdout>>

\* case <-dhcpTicker.C: test := w.runTest()
DhcpTicker(e, may) ==
    /\ pc = "select"
    /\ may
    /\ env' = e
    /\ test' = runTest(e)
    /\ pc' = "dhcp_append"
    /\ UNCHANGED <<headless, aggregator, updates, views, logFile, stdout>>

\* Mutant: a failed lease result is dropped instead of recorded.
DhcpAppendSkipFailed ==
    /\ pc = "dhcp_append"
    /\ dhcpTests' = IF test.Success THEN Append(dhcpTests, test) ELSE dhcpTests
    /\ pc' = IF test.Success THEN "dhcp_count" ELSE "select"
    /\ env' = NoEnv
    /\ UNCHANGED <<headless, pingTests, successCount, totalCount, test,
                   updates, views, logFile, stdout>>

\* Mutant: the lease history keeps only the newest entry.
DhcpAppendBounded ==
    /\ pc = "dhcp_append"
    /\ dhcpTests' = <<test>>
    /\ pc' = "dhcp_count"
    /\ env' = NoEnv
    /\ UNCHANGED <<headless, pingTests, successCount, totalCount, test,
                   updates, views, logFile, stdout>>

\* w.dhcpTests = append(w.dhcpTests, test)
DhcpAppend ==
    /\ pc = "dhcp_append"
    /\ dhcpTests' = Append(dhcpTests, test)
    /\ pc' = "dhcp_count"
    /\ env' = NoEnv
    /\ UNCHANGED <<headless, pingTests, successCount, totalCount, test,
                   updates, views, logFile, stdout>>

\* Mutant: the lease case forgets to count the recording.
DhcpCountLost ==
    /\ pc = "dhcp_count"
    /\ pc' = "dhcp_success"
    /\ UNCHANGED <<headless, aggregator, env, test, updates, views, logFile,
                   stdout>>

\* Mutant: the dashboard is updated between the append and the counters.
DhcpCountAfterUpdate ==
    /\ pc = "dhcp_count"
    /\ updateUI
    /\ totalCount' = totalCount + 1
    /\ pc' = "dhcp_success"
    /\ UNCHANGED <<headless, dhcpTests, pingTests, successCount, env, test,
                   views, logFile, stdout>>

\* w.totalCount++
DhcpCount ==
    /\ pc = "dhcp_count"
    /\ totalCount' = totalCount + 1
    /\ pc' = "dhcp_success"
    /\ UNCHANGED <<headless, dhcpTests, pingTests, successCount, env, test,
                   updates, views, logFile, stdout>>

\* if test.Success { w.successCount++ }
DhcpSuccess ==
    /\ pc = "dhcp_success"
    /\ successCount' = IF test.Success THEN successCount + 1 ELSE successCount
    /\ pc' = "dhcp_update"
    /\ UNCHANGED <<headless, dhcpTests, pingTests, totalCount, env, test,
                   updates, views, logFile, stdout>>

\* Mutant: the loop is left after a failed lease probe.
DhcpUpdateReturnsOnFailure ==
    /\ pc = "dhcp_update"
    /\ updateUI
    /\ pc' = IF dhcpTests[Len(dhcpTests)].Success THEN "select" ELSE "stopped"
    /\ test' = WiFiTest
    /\ UNCHANGED <<headless, aggregator, env, views, logFile, stdout>>

\* Mutant: the lease case leaves the dashboard to the next uiTicker tick.
DhcpUpdateDeferred ==
    /\ pc = "dhcp_update"
    /\ pc' = "select"
    /\ test' = WiFiTest
    /\ UNCHANGED <<headless, aggregator, env, updates, views, logFile, stdout>>

\* w.updateUI(), and back to the select
DhcpUpdate ==
    /\ pc = "dhcp_update"
    /\ updateUI
    /\ pc' = "select"
    /\ test' = WiFiTest
    /\ UNCHANGED <<headless, aggregator, env, views, logFile, stdout>>

\* Mutant: the connectivity ticker is served on its own, whatever the loop
\* is doing.
PingTickerConcurrent(e, may) ==
    /\ pc \notin {"start", "ping_append", "ping_count", "ping_success",
                  "ping_update"}
    /\ may
    /\ env' = e
    /\ test' = runConnectivityTest(e)
    /\ pc' = "ping_append"
    /\ UNCHANGED <<headless, aggregator, updates, views, logFile, stdout>>

\* case <-pingTicker.C: test := w.runConnectivityTest()
PingTicker(e, may) ==
    /\ pc = "select"
    /\ may
    /\ env' = e
    /\ test' = runConnectivityTest(e)
    /\ pc' = "ping_append"
    /\ UNCHANGED <<headless, aggregator, updates, views, logFile, stdout>>

\* Mutant: the connectivity case records its result twice.
PingAppendTwice ==
    /\ pc = "ping_append"
    /\ pingTests' = Append(Append(pingTests, test), test)
    /\ pc' = "ping_count"
    /\ env' = NoEnv
    /\ UNCHANGED <<headless, dhcpTests, successCount, totalCount, test,
                   updates, views, logFile, stdout>>

\* Mutant: the connectivity case appends to the lease history.
PingAppendToLease ==
    /\ pc = "ping_append"
    /\ dhcpTests' = Append(dhcpTests, test)
    /\ pc' = "ping_count"
    /\ env' = NoEnv
    /\ UNCHANGED <<headless, pingTests, successCount, totalCount, test,
                   updates, views, logFile, stdout>>

\* w.pingTests = append(w.pingTests, test)
PingAppend ==
    /\ pc = "ping_append"
    /\ pingTests' = Append(pingTests, test)
    /\ pc' = "ping_count"
    /\ env' = NoEnv
    /\ UNCHANGED <<headless, dhcpTests, successCount, totalCount, test,
                   updates, views, logFile, stdout>>

\* w.totalCount++
PingCount ==
    /\ pc = "ping_count"
    /\ totalCount' = totalCount + 1
    /\ pc' = "ping_success"
    /\ UNCHANGED <<headless, dhcpTests, pingTests, successCount, env, test,
                   updates, views, logFile, stdout>>

\* Mutant: the connectivity case counts every result as a success.
PingSuccessAlways ==
    /\ pc = "ping_success"
    /\ successCount' = successCount + 1
    /\ pc' = "ping_update"
    /\ UNCHANGED <<headless, dhcpTests, pingTests, totalCount, env, test,
                   updates, views, logFile, stdout>>

\* Mutant: the headless branch does not count the successes of the
\* connectivity probe.
PingSuccessTuiOnly ==
    /\ pc = "ping_success"
    /\ successCount' = IF test.Success /\ ~headless
                       THEN successCount + 1 ELSE successCount
    /\ pc' = "ping_update"
    /\ UNCHANGED <<headless, dhcpTests, pingTests, totalCount, env, test,
                   updates, views, logFile, stdout>>

\* if test.Success { w.successCount++ }
PingSuccess ==
    /\ pc = "ping_success"
    /\ successCount' = IF test.Success THEN successCount + 1 ELSE successCount
    /\ pc' = "ping_update"
    /\ UNCHANGED <<headless, dhcpTests, pingTests, totalCount, env, test,
                   updates, views, logFile, stdout>>

\* w.updateUI(), and back to the select
PingUpdate ==
    /\ pc = "ping_update"
    /\ updateUI
    /\ pc' = "select"
    /\ test' = WiFiTest
    /\ UNCHANGED <<headless, aggregator, env, views, logFile, stdout>>

\* Mutant: the uiTicker case pushes to both sinks, the log file included.
UiTickerBothSinks ==
    /\ pc = "select"
    /\ ~headless
    /\ updateUI
    /\ logFile' = logFile \o writeResultsToFile(FALSE, Len(LogRecord))[1]
    /\ UNCHANGED <<headless, aggregator, pc, env, test, views, stdout>>

\* case <-uiTicker.C (TUI branch only): w.updateUI()
UiTicker ==
    /\ pc = "select"
    /\ ~headless
    /\ updateUI
    /\ UNCHANGED <<headless, aggregator, pc, env, test, views, logFile, stdout>>

\* Mutant: a failed log write ends the monitoring loop.
FileTickerFatal(openErr, n, may) ==
    /\ pc = "select"
    /\ may
    /\ n <= Len(LogRecord)
    /\ LET res == writeResultsToFile(openErr, n)
       IN  /\ logFile' = logFile \o res[1]
           /\ stdout' = IF res[2] THEN stdout + 1 ELSE stdout
           /\ pc' = IF res[2] THEN "stopped" ELSE pc
    /\ UNCHANGED <<headless, aggregator, env, test, updates, views>>

\* Mutant: a log write that completes empties the histories it has logged.
FileTickerFlushes(openErr, n, may) ==
    /\ pc = "select"
    /\ may
    /\ n <= Len(LogRecord)
    /\ LET res == writeResultsToFile(openErr, n)
       IN  /\ logFile' = logFile \o res[1]
           /\ stdout' = IF res[2] THEN stdout + 1 ELSE stdout
           /\ dhcpTests' = IF res[2] THEN dhcpTests ELSE <<>>
           /\ pingTests' = IF res[2] THEN pingTests ELSE <<>>
    /\ UNCHANGED <<headless, successCount, totalCount, pc, env, test, updates,
                   views>>

\* case <-fileTicker.C: writeResultsToFile, its error printed
FileTicker(openErr, n, may) ==
    /\ pc = "select"
    /\ may
    /\ n <= Len(LogRecord)
    /\ LET res == writeResultsToFile(openErr, n)
       IN  /\ logFile' = logFile \o res[1]
           /\ stdout' = IF res[2] THEN stdout + 1 ELSE stdout
    /\ UNCHANGED <<headless, aggregator, pc, env, test, updates, views>>

\* Mutant: the queued closure formats the texts when it is executed, from the
\* monitor's fields as they are then.
DrawLive ==
    /\ ~headless
    /\ updates # <<>>
    /\ statsView' = statsText
    /\ chartView' = chartText
    /\ logView' = logText
    /\ updates' = Tail(updates)
    /\ UNCHANGED <<headless, aggregator, pc, env, test, logFile, stdout>>

\* The tview event loop executes the oldest queued closure:
\* statsView.SetText(statsText), chartView.SetText(chartText),
\* logView.SetText(logText).
Draw ==
    /\ ~headless
    /\ updates # <<>>
    /\ statsView' = Head(updates).stats
    /\ chartView' = Head(updates).chart
    /\ logView' = Head(updates).log
    /\ updates' = Tail(updates)
    /\ UNCHANGED <<headless, aggregator, pc, env, test, logFile, stdout>>

DhcpCase == DhcpAppend \/ DhcpCount \/ DhcpSuccess \/ DhcpUpdate

PingCase == PingAppend \/ PingCount \/ PingSuccess \/ PingUpdate

\* Ticks served so far: recordings and log writes.
Served == totalCount + Writes

\* The specifications that leave the timing open: no time, no termination.
Untimed == UNCHANGED <<now, timers, served, alive, twin>>

\* Every command works or exactly one of them fails.
Next ==
    \/ Start /\ Untimed
    \/ (\E e \in CoreEnvs : DhcpTicker(e, Served < MaxServed)) /\ Untimed
    \/ DhcpAppend /\ Untimed
    \/ DhcpCount /\ Untimed
    \/ DhcpSuccess /\ Untimed
    \/ DhcpUpdate /\ Untimed
    \/ (\E e \in CoreEnvs : PingTicker(e, Served < MaxServed)) /\ Untimed
    \/ PingAppend /\ Untimed
    \/ PingCount /\ Untimed
    \/ PingSuccess /\ Untimed
    \/ PingUpdate /\ Untimed
    \/ UiTicker /\ Untimed
    \/ (\E openErr \in BOOLEAN, n \in 0..MaxRecordLines :
          FileTicker(openErr, n, Served < MaxServed)) /\ Untimed
    \/ Draw /\ Untimed

Spec == Init /\ [][Next]_vars

\* Every outcome of the external commands.
NextProbe ==
    \/ Start /\ Untimed
    \/ (\E e \in Envs : DhcpTicker(e, Served < MaxProbeServed)) /\ Untimed
    \/ DhcpAppend /\ Untimed
    \/ DhcpCount /\ Untimed
    \/ DhcpSuccess /\ Untimed
    \/ DhcpUpdate /\ Untimed
    \/ (\E e \in Envs : PingTicker(e, Served < MaxProbeServed)) /\ Untimed
    \/ PingAppend /\ Untimed
    \/ PingCount /\ Untimed
    \/ PingSuccess /\ Untimed
    \/ PingUpdate /\ Untimed
    \/ UiTicker /\ Untimed
    \/ (\E openErr \in BOOLEAN, n \in 0..MaxRecordLines :
          FileTicker(openErr, n, Served < MaxProbeServed)) /\ Untimed
    \/ Draw /\ Untimed

SpecProbe == Init /\ [][NextProbe]_vars

\* The runs of the TUI loop in which the select serves the ping ticker
\* eleven times, the lease ticker at most once and the file ticker never.
NextChart ==
    \/ Start /\ Untimed
    \/ (\E e \in ChartEnvs : DhcpTicker(e, Len(dhcpTests) < MaxChartDhcp)) /\ Untimed
    \/ DhcpAppend /\ Untimed
    \/ DhcpCount /\ Untimed
    \/ DhcpSuccess /\ Untimed
    \/ DhcpUpdate /\ Untimed
    \/ (\E e \in ChartEnvs : PingTicker(e, Len(pingTests) < MaxChartPing)) /\ Untimed
    \/ PingAppend /\ Untimed
    \/ PingCount /\ Untimed
    \/ PingSuccess /\ Untimed
    \/ PingUpdate /\ Untimed
    \/ UiTicker /\ Untimed
    \/ Draw /\ Untimed

\* main with HEADLESS unset.
InitChart == Init /\ ~headless

SpecChart == InitChart /\ [][NextChart]_vars

\* --------------------------------------------------------------- SpecTimed
\* The monitor's fields and the files, without the clock.
monitor == <<headless, aggregator, pc, env, test, updates, views, logFile,
             stdout>>

\* The tickers startMonitoring creates before its loop.
NewTickers ==
    /\ timers' = [t \in Tickers |->
                    IF t \in Created THEN NewTicker(Period(t)) ELSE NoTicker]
    /\ UNCHANGED <<now, served, alive, twin>>

\* The select blocks: no case is ready until the next tick of a ticker.
Wait ==
    /\ pc = "select"
    /\ \A t \in Created : ~timers[t].buffered
    /\ NextTick <= MaxTime
    /\ now' = NextTick
    /\ timers' = Elapse(timers, NextTick - now)
    /\ UNCHANGED <<monitor, served, alive, twin>>

\* The case of ticker t can be chosen: a tick waits in its channel.
Ready(t) == timers[t].buffered

\* The select receives the tick of t, and the case runs d seconds (or to the
\* end of the time followed) up to its first assignment to a field.
Serve(t, d) ==
    /\ now' = Min(now + d, MaxTime)
    /\ timers' = Elapse(Receive(timers, t), Min(now + d, MaxTime) - now)
    /\ served' = IF t \in DOMAIN served
                 THEN [served EXCEPT ![t] = @ + 1] ELSE served
    /\ UNCHANGED <<alive, twin>>

\* The environments of SpecTimed: every command works.
TimedEnvs == {e \in ChartEnvs : ~e.ping4Err}

\* case <-dhcpTicker.C with its ticker: the tick is received and runTest
\* runs its commands.
ServeDhcp ==
    \E e \in TimedEnvs, d \in ProbeTimes :
        DhcpTicker(e, Ready("dhcp")) /\ Serve("dhcp", d)

\* case <-pingTicker.C with its ticker.
ServePing ==
    \E e \in TimedEnvs, d \in ProbeTimes :
        PingTicker(e, Ready("ping")) /\ Serve("ping", d)

\* case <-uiTicker.C with its ticker.
ServeUi == Ready("ui") /\ UiTicker /\ Serve("ui", 0)

\* case <-fileTicker.C with its ticker.
ServeFile ==
    FileTicker(FALSE, Len(LogRecord), Ready("file")) /\ Serve("file", 0)

\* The statements of a probe case after the probe.
RecordSteps == (DhcpCase \/ PingCase) /\ Untimed

\* The loop with its tickers: a case is ready when its ticker has a tick
\* in its channel; dashboard updates and log writes take no time.
NextTimed ==
    \/ Start /\ NewTickers
    \/ ServeDhcp
    \/ DhcpAppend /\ Untimed
    \/ DhcpCount /\ Untimed
    \/ DhcpSuccess /\ Untimed
    \/ DhcpUpdate /\ Untimed
    \/ ServePing
    \/ PingAppend /\ Untimed
    \/ PingCount /\ Untimed
    \/ PingSuccess /\ Untimed
    \/ PingUpdate /\ Untimed
    \/ ServeUi
    \/ ServeFile
    \/ Draw /\ Untimed
    \/ Wait

SpecTimed == Init /\ [][NextTimed]_vars

\* A step of the program: of the loop, or of the dashboard's event loop.
Runs ==
    \/ ServeDhcp
    \/ ServePing
    \/ ServeUi
    \/ ServeFile
    \/ RecordSteps
    \/ Draw /\ Untimed

\* The goroutine of the loop and the event loop of the dashboard keep
\* running: the program does not stop while one of them can take a step.
FairTimed == SpecTimed /\ WF_vars(Runs)

\* ---------------------------------------------------------------- SpecLife
\* The process is terminated from outside: a signal, or in TUI mode app.Run
\* returning and main with it.  Nothing of the program runs afterwards.
Kill ==
    /\ alive
    /\ alive' = FALSE
    /\ UNCHANGED <<monitor, clock, twin>>

\* The loop of Spec in a process that can be terminated at any time.
NextLife ==
    \/ alive /\ Start /\ Untimed
    \/ alive /\ (\E e \in CoreEnvs : DhcpTicker(e, Served < MaxLifeServed))
             /\ Untimed
    \/ alive /\ DhcpAppend /\ Untimed
    \/ alive /\ DhcpCount /\ Untimed
    \/ alive /\ DhcpSuccess /\ Untimed
    \/ alive /\ DhcpUpdate /\ Untimed
    \/ alive /\ (\E e \in CoreEnvs : PingTicker(e, Served < MaxLifeServed))
             /\ Untimed
    \/ alive /\ PingAppend /\ Untimed
    \/ alive /\ PingCount /\ Untimed
    \/ alive /\ PingSuccess /\ Untimed
    \/ alive /\ PingUpdate /\ Untimed
    \/ alive /\ UiTicker /\ Untimed
    \/ alive /\ (\E openErr \in BOOLEAN, n \in 0..MaxRecordLines :
                    FileTicker(openErr, n, Served < MaxLifeServed))
             /\ Untimed
    \/ alive /\ Draw /\ Untimed
    \/ Kill

SpecLife == Init /\ [][NextLife]_vars

\* ---------------------------------------------------------------- SpecMode
\* The branch of startMonitoring for the other value of headless serves a
\* lease fire with the same outcome e of the commands: runTest, append,
\* totalCount++, successCount++ if test.Success, updateUI (which reads the
\* aggregator only).
TwinDhcpCase(e) ==
    LET t == runTest(e)
    IN  twin' = [twin EXCEPT !.dhcpTests = Append(@, t),
                             !.totalCount = @ + 1,
                             !.successCount = IF t.Success THEN @ + 1 ELSE @]

\* The same for a connectivity fire: runConnectivityTest.
TwinPingCase(e) ==
    LET t == runConnectivityTest(e)
    IN  twin' = [twin EXCEPT !.pingTests = Append(@, t),
                             !.totalCount = @ + 1,
                             !.successCount = IF t.Success THEN @ + 1 ELSE @]

\* A step of the loop alone; the emissions of the other loop are its own
\* and touch no aggregator.
Solo == UNCHANGED <<now, timers, served, alive, twin>>

\* A probe fire served by both loops.
Both == UNCHANGED <<now, timers, served, alive>>

\* The loop of Spec, every command working or every command failing, and
\* next to it the loop of the other mode, which serves the same lease and
\* connectivity fires with the same outcomes.
NextMode ==
    \/ Start /\ Solo
    \/ (\E e \in ChartEnvs :
          DhcpTicker(e, Served < MaxModeServed) /\ TwinDhcpCase(e)) /\ Both
    \/ DhcpAppend /\ Solo
    \/ DhcpCount /\ Solo
    \/ DhcpSuccess /\ Solo
    \/ DhcpUpdate /\ Solo
    \/ (\E e \in ChartEnvs :
          PingTicker(e, Served < MaxModeServed) /\ TwinPingCase(e)) /\ Both
    \/ PingAppend /\ Solo
    \/ PingCount /\ Solo
    \/ PingSuccess /\ Solo
    \/ PingUpdate /\ Solo
    \/ UiTicker /\ Solo
    \/ (\E openErr \in BOOLEAN, n \in 0..MaxRecordLines :
          FileTicker(openErr, n, Served < MaxModeServed)) /\ Solo
    \/ Draw /\ Solo

SpecMode == Init /\ [][NextMode]_vars

\* ------------------------------------------------------------------ SpecV6
\* The outcome e of the commands of a probe, but with ping6 ending as v6Err
\* says.
WithPing6(e, v6Err) == [e EXCEPT !.ping6Err = v6Err]

\* Every command works or exactly one of them fails; a second loop serves
\* the same fires with the same outcomes of dhclient, cat, ping and the
\* latency ping, and any outcome of ping6.
NextV6 ==
    \/ Start /\ Solo
    \/ (\E e \in CoreEnvs, v6Err \in BOOLEAN :
          /\ DhcpTicker(e, Served < MaxV6Served)
          /\ TwinDhcpCase(WithPing6(e, v6Err))) /\ Both
    \/ DhcpAppend /\ Solo
    \/ DhcpCount /\ Solo
    \/ DhcpSuccess /\ Solo
    \/ DhcpUpdate /\ Solo
    \/ (\E e \in CoreEnvs, v6Err \in BOOLEAN :
          /\ PingTicker(e, Served < MaxV6Served)
          /\ TwinPingCase(WithPing6(e, v6Err))) /\ Both
    \/ PingAppend /\ Solo
    \/ PingCount /\ Solo
    \/ PingSuccess /\ Solo
    \/ PingUpdate /\ Solo
    \/ UiTicker /\ Solo
    \/ (\E openErr \in BOOLEAN, n \in 0..MaxRecordLines :
          FileTicker(openErr, n, Served < MaxV6Served)) /\ Solo
    \/ Draw /\ Solo

SpecV6 == Init /\ [][NextV6]_vars

\* ================================================================== claims
\* The places where updateUI or writeResultsToFile read the aggregator:
\* the initial updateUI, the updateUI that ends a probe case, and the select
\* (uiTicker and fileTicker cases).
SnapshotPoint == pc \in {"start", "select", "dhcp_update", "ping_update"}

\* The closures handed over and not yet executed, and what the views show.
Displayed == [stats |-> statsView, chart |-> chartView, log |-> logView]

Handed == {updates[i] : i \in 1..Len(updates)}
          \cup (IF headless THEN {} ELSE {Displayed})

\* C1: wherever a snapshot can be taken (dashboard update or log write, in
\* the interactive and in the headless loop), totalCount is the number of
\* entries of the lease history plus that of the connectivity history.
C1_TotalIsHistorySize ==
    SnapshotPoint => totalCount = Len(dhcpTests) + Len(pingTests)

\* One successful lease result (2 s) and one successful connectivity result
\* (15 ms) are recorded and the dashboard shows 2 tests, 2 successes, 100 %.
C1_Witness ==
    /\ pc = "select"
    /\ dhcpTests = <<[DHCPRenewTime |-> RenewElapsed, IPv4Connectivity |-> TRUE,
                      IPv6Connectivity |-> TRUE, Latency |-> AvgLatency,
                      Success |-> TRUE]>>
    /\ pingTests = <<[DHCPRenewTime |-> 0, IPv4Connectivity |-> TRUE,
                      IPv6Connectivity |-> TRUE, Latency |-> AvgLatency,
                      Success |-> TRUE]>>
    /\ totalCount = 2
    /\ ~headless
    /\ statsView.total = 2
    /\ statsView.success = 2
    /\ statsView.successRate = 10000
    /\ statsView.classRates = <<10000, 10000>>

\* C2: wherever a snapshot can be taken, successCount is the number of
\* entries with Success = TRUE in the two histories together.
C2_SuccessIsSuccessfulEntries ==
    SnapshotPoint =>
        successCount = Cardinality({i \in 1..Len(dhcpTests) : dhcpTests[i].Success})
                     + Cardinality({i \in 1..Len(pingTests) : pingTests[i].Success})

\* One failing connectivity result: counted in totalCount, not in successCount.
C2_Witness ==
    /\ pc = "select"
    /\ Len(pingTests) = 1
    /\ ~pingTests[1].Success
    /\ dhcpTests = <<>>
    /\ totalCount = 1
    /\ successCount = 0

\* What the external commands of the running probe did.
leaseRenewSucceeded == ~env.dhclientErr /\ ~env.catErr /\ env.nameserver
ipv4Reachable == ~env.ping4Err
ipv6Reachable == ~env.ping6Err

\* C5: the result the full probe builds has
\* Success = leaseRenewSucceeded /\ ipv4Reachable /\ latency > 0.
C5_LeaseSuccess ==
    pc = "dhcp_append" =>
        /\ test.IPv4Connectivity = ipv4Reachable
        /\ test.IPv6Connectivity = ipv6Reachable
        /\ test.Success = (leaseRenewSucceeded /\ ipv4Reachable /\ test.Latency > 0)

\* The renewal succeeded and the latency is positive, but IPv4 is unreachable.
C5_Witness ==
    /\ pc = "dhcp_append"
    /\ leaseRenewSucceeded
    /\ ~ipv4Reachable
    /\ test.Latency = AvgLatency
    /\ ~test.Success

\* C6: the result the connectivity-only probe builds has
\* Success = ipv4Reachable /\ latency > 0 and a zero lease-renewal duration.
C6_ConnectivitySuccess ==
    pc = "ping_append" =>
        /\ test.IPv4Connectivity = ipv4Reachable
        /\ test.IPv6Connectivity = ipv6Reachable
        /\ test.DHCPRenewTime = 0
        /\ test.Success = (ipv4Reachable /\ test.Latency > 0)

\* IPv4 is reachable but the latency is unmeasured (0).
C6_Witness ==
    /\ pc = "ping_append"
    /\ ipv4Reachable
    /\ test.Latency = 0
    /\ ~test.Success

\* The closure a step hands to the dashboard, if it hands one.
HandsOver == ~headless /\ Len(updates') > Len(updates)
handed == updates'[Len(updates')]

\* The chronologically most recent Min(n, Len(tests)) entries, oldest first.
Latest(tests, n) ==
    SubSeq(tests, Len(tests) - Min(n, Len(tests)) + 1, Len(tests))

\* C3: the result list of a class in a snapshot has at most 10 entries and
\* shows the most recent Min(10, history length) entries of the class,
\* oldest first.
C3_ChartShowsLatest ==
    [][HandsOver =>
        /\ Len(handed.chart.dhcp) <= ChartLimit
        /\ Len(handed.chart.ping) <= ChartLimit
        /\ [i \in 1..Len(handed.chart.dhcp) |->
               <<handed.chart.dhcp[i].status, handed.chart.dhcp[i].DHCP>>]
           = [i \in 1..Len(Latest(dhcpTests, ChartLimit)) |->
               <<Status(Latest(dhcpTests, ChartLimit)[i]),
                 Latest(dhcpTests, ChartLimit)[i].DHCPRenewTime>>]
        /\ [i \in 1..Len(handed.chart.ping) |->
               <<handed.chart.ping[i].status, handed.chart.ping[i].IPv4,
                 handed.chart.ping[i].IPv6, handed.chart.ping[i].Latency>>]
           = [i \in 1..Len(Latest(pingTests, ChartLimit)) |->
               <<Status(Latest(pingTests, ChartLimit)[i]),
                 Latest(pingTests, ChartLimit)[i].IPv4Connectivity,
                 Latest(pingTests, ChartLimit)[i].IPv6Connectivity,
                 Latest(pingTests, ChartLimit)[i].Latency>>]]_vars

\* r is 100 * s / n to two decimals (in hundredths of a percent), 0 if n = 0.
IsRate(r, s, n) ==
    IF n = 0 THEN r = 0
    ELSE /\ 2 * (r * n - 10000 * s) <= n
         /\ 2 * (10000 * s - r * n) <= n

NumSuccessful(tests) == Cardinality({i \in 1..Len(tests) : tests[i].Success})

\* The lines a step appends to the log file.
appended == SubSeq(logFile', Len(logFile) + 1, Len(logFile'))

\* C4: in every snapshot (dashboard and log) the overall rate is
\* 100 * successCount / totalCount, 0 when totalCount = 0, and each class
\* rate is 100 * (successful entries of the class) / (entries of the
\* class), 0 when the class has no entries.
C4_Rates ==
    [][/\ HandsOver =>
            /\ handed.stats.total = totalCount
            /\ handed.stats.success = successCount
            /\ IsRate(handed.stats.successRate, successCount, totalCount)
            /\ IsRate(handed.stats.classRates[1],
                       NumSuccessful(dhcpTests), Len(dhcpTests))
            /\ IsRate(handed.stats.classRates[2],
                       NumSuccessful(pingTests), Len(pingTests))
       /\ \A i \in 1..Len(appended) :
            LET l == appended[i]
            IN  /\ l.k = "Total Tests" =>
                      /\ l.total = totalCount
                      /\ l.success = successCount
                      /\ IsRate(l.rate, successCount, totalCount)
                /\ l.k = "DHCP Success Rate" =>
                      IsRate(l.rate, NumSuccessful(dhcpTests), Len(dhcpTests))
                /\ l.k = "Ping Success Rate" =>
                      IsRate(l.rate, NumSuccessful(pingTests), Len(pingTests))
      ]_vars

\* Two of three connectivity results succeeded and there is no lease result:
\* the dashboard shows 66.67 %, 0 % for the lease class and 66.67 % for the
\* connectivity class.
C4_Witness ==
    /\ ~headless
    /\ dhcpTests = <<>>
    /\ Len(pingTests) = 3
    /\ statsView.total = 3
    /\ statsView.success = 2
    /\ statsView.successRate = 6667
    /\ statsView.classRates = <<0, 6667>>

\* The number of result lines of a chart list that show the success mark.
Greens(rows) == Cardinality({i \in 1..Len(rows) : rows[i].status = "[green]o"})

\* A snapshot that shows every recorded entry shows counters that match them.
Untorn(c) ==
    (Len(c.chart.dhcp) < ChartLimit /\ Len(c.chart.ping) < ChartLimit) =>
        /\ c.stats.total = Len(c.chart.dhcp) + Len(c.chart.ping)
        /\ c.stats.success = Greens(c.chart.dhcp) + Greens(c.chart.ping)
        /\ c.stats.failure = c.stats.total - c.stats.success
        /\ Len(c.log.dhcp) = Min(1, Len(c.chart.dhcp))
        /\ Len(c.log.ping) = Min(1, Len(c.chart.ping))

\* C7: no snapshot handed to the dashboard, in any interleaving of the
\* scheduler and the dashboard's event loop, shows a history entry without
\* its counter update or a counter update without its history entry.
C7_NoTornSnapshot == \A c \in Handed : Untorn(c)

\* The scheduler is between the append and the counter update of a lease
\* recording while the dashboard shows the snapshot of the connectivity
\* recording before it and a later snapshot is still queued.
C7_Witness ==
    /\ ~headless
    /\ pc = "dhcp_count"
    /\ totalCount # Len(dhcpTests) + Len(pingTests)
    /\ updates # <<>>
    /\ statsView.total = 1
    /\ Len(chartView.ping) = 1

\* C8: the dashboard's event loop shows only closures handed over by the
\* scheduler, as they were when handed over, and never touches the
\* aggregator; a recording changes neither the shown nor the queued
\* snapshots.
C8_HandOffOnly ==
    [][/\ views' # views =>
            /\ updates # <<>>
            /\ statsView' = Head(updates).stats
            /\ chartView' = Head(updates).chart
            /\ logView' = Head(updates).log
            /\ updates' = Tail(updates)
            /\ aggregator' = aggregator
            /\ pc' = pc
       /\ updates' # updates =>
            \/ /\ Len(updates') = Len(updates) + 1
               /\ SubSeq(updates', 1, Len(updates)) = updates
            \/ /\ updates # <<>>
               /\ updates' = Tail(updates)
       /\ aggregator' # aggregator =>
            /\ views' = views
            /\ updates' = updates
      ]_vars

\* The dashboard shows the snapshot taken after the first recording while
\* the aggregator already holds two more.
C8_Witness ==
    /\ ~headless
    /\ statsView.total = 1
    /\ Len(chartView.dhcp) + Len(chartView.ping) = 1
    /\ totalCount = 3
    /\ Len(dhcpTests) + Len(pingTests) = 3

\* The scheduler goroutine takes the step (the dashboard's event loop
\* leaves pc alone; the ticker cases that stay at the select are named).
SchedulerLeaves(at) == pc = at /\ pc' # pc

\* What the claim says of a probe of which a command failed, for the
\* given notion of failure of the lease probe and of the connectivity probe.
Absorbed(leaseFailed, pingFailed) ==
    \* the result is a failure with zero measurements
    /\ (pc = "dhcp_append" /\ leaseFailed) => ~test.Success
    /\ (pc = "ping_append" /\ pingFailed) => ~test.Success
    /\ (pc = "dhcp_append" /\ ~leaseRenewSucceeded) => test.DHCPRenewTime = 0
    /\ (pc \in {"dhcp_append", "ping_append"} /\ env.latErr) => test.Latency = 0
    \* it is recorded like any other result
    /\ SchedulerLeaves("dhcp_append") =>
          /\ dhcpTests' = Append(dhcpTests, test)
          /\ pingTests' = pingTests
          /\ pc' = "dhcp_count"
    /\ SchedulerLeaves("ping_append") =>
          /\ pingTests' = Append(pingTests, test)
          /\ dhcpTests' = dhcpTests
          /\ pc' = "ping_count"
    /\ (SchedulerLeaves("dhcp_count") \/ SchedulerLeaves("ping_count")) =>
          /\ totalCount' = totalCount + 1
          /\ pc' \in {"dhcp_success", "ping_success"}
    /\ (SchedulerLeaves("dhcp_success") \/ SchedulerLeaves("ping_success")) =>
          /\ successCount' = successCount + (IF test.Success THEN 1 ELSE 0)
          /\ pc' \in {"dhcp_update", "ping_update"}
    \* the loop goes on, and the probe is run only when a ticker case is served
    /\ (SchedulerLeaves("dhcp_update") \/ SchedulerLeaves("ping_update")) =>
          pc' = "select"
    /\ pc' \in {"dhcp_append", "ping_append"} => pc \in {"select", pc'}

\* C9 as stated: the failure of the lease renewal or of any reachability or
\* latency measurement gives Success = FALSE, a zero measurement, one
\* recording like any other, and no retry.
C9_AnyFailureAbsorbed ==
    [][Absorbed(~leaseRenewSucceeded \/ ~ipv4Reachable \/ ~ipv6Reachable
                    \/ env.latErr,
                ~ipv4Reachable \/ ~ipv6Reachable \/ env.latErr)]_vars

\* C9 amended: the same for the failure of the lease renewal (lease probe
\* only), of the IPv4 reachability check or of the latency measurement; a
\* failed IPv6 check alone is recorded as IPv6Connectivity = FALSE.
C9_FailureAbsorbed ==
    [][/\ Absorbed(~leaseRenewSucceeded \/ ~ipv4Reachable \/ env.latErr,
                    ~ipv4Reachable \/ env.latErr)
       /\ (pc \in {"dhcp_append", "ping_append"} /\ ~ipv6Reachable) =>
              ~test.IPv6Connectivity]_vars

\* A lease probe whose renewal failed was recorded (zero duration, not a
\* success), and the next lease tick was served and succeeded.
C9_Witness ==
    /\ pc = "select"
    /\ Len(dhcpTests) = 2
    /\ ~dhcpTests[1].Success
    /\ dhcpTests[1].DHCPRenewTime = 0
    /\ dhcpTests[1].IPv4Connectivity
    /\ dhcpTests[2].Success
    /\ totalCount = 2
    /\ successCount = 1

\* C10: a failed log write is reported and changes neither the aggregator
\* nor the position of the scheduler, which stays in its select loop.
C10_SinkFailureHarmless ==
    [][(logFile' # logFile \/ stdout' # stdout) =>
          /\ aggregator' = aggregator
          /\ updates' = updates
          /\ views' = views
          /\ pc = "select"
          /\ pc' = "select"
          /\ SubSeq(logFile', 1, Len(logFile)) = logFile
          /\ IF Len(appended) = Len(LogRecord)
             THEN stdout' = stdout
             ELSE stdout' = stdout + 1]_vars

\* The first log write failed after its header line; then a connectivity
\* result was recorded and the next log write completed, showing it.
C10_Witness ==
    /\ stdout = 1
    /\ Len(logFile) > 2
    /\ logFile[1].k = "header"
    /\ logFile[2].k = "header"
    /\ logFile[3].k = "Ping Test"
    /\ logFile[Len(logFile)].k = "delimiter"
    /\ totalCount = 1
    /\ pc = "select"

\* A ticker case of the select that emits and returns to the select.
DashboardInvoked == Len(updates') = Len(updates) + 1
LogWriterInvoked == logFile' # logFile \/ stdout' # stdout
EmitFire == pc = "select" /\ pc' = "select"
            /\ (DashboardInvoked \/ LogWriterInvoked)

\* The counters a complete log record carries.
TotalsLine(lines) ==
    {<<lines[i].total, lines[i].success>> :
        i \in {j \in 1..Len(lines) : lines[j].k = "Total Tests"}}

\* C11 as stated: every emission fire invokes each sink once, the log writer
\* and (where there is a dashboard) the dashboard renderer, with the same
\* counters.
C11_AllSinksPerFire ==
    [][EmitFire =>
          /\ LogWriterInvoked
          /\ ~headless => DashboardInvoked
      ]_vars

\* C11 amended: every emission fire invokes exactly one sink, once: the
\* uiTicker case hands one closure to the dashboard and writes no log, the
\* fileTicker case makes one log write and hands nothing to the dashboard;
\* either carries the counters of the aggregator at that fire, which the
\* fire leaves unchanged.
C11_OneSinkPerFire ==
    [][EmitFire =>
          /\ DashboardInvoked # LogWriterInvoked
          /\ aggregator' = aggregator
          /\ DashboardInvoked =>
                /\ ~headless
                /\ SubSeq(updates', 1, Len(updates)) = updates
                /\ handed.stats.total = totalCount
                /\ handed.stats.success = successCount
                /\ Len(handed.chart.dhcp) = Min(ChartLimit, Len(dhcpTests))
                /\ Len(handed.chart.ping) = Min(ChartLimit, Len(pingTests))
          /\ LogWriterInvoked =>
                /\ updates' = updates
                /\ Len(appended) <= MaxRecordLines
                /\ Cardinality({i \in 1..Len(appended) :
                                   appended[i].k = "header"}) <= 1
                /\ TotalsLine(appended) \subseteq {<<totalCount, successCount>>}
      ]_vars

\* The log holds a record written before the first recording (0 tests) while
\* the dashboard shows the snapshot taken after it (1 test) and a later
\* dashboard snapshot is queued: the two sinks were served by different fires.
C11_Witness ==
    /\ ~headless
    /\ totalCount = 1
    /\ statsView.total = 1
    /\ Len(updates) = 1
    /\ updates[1].stats.total = 1
    /\ TotalsLine(logFile) = {<<0, 0>>}
    /\ pc = "select"

\* The kinds of the lines of a log record, in order, for the histories as
\* they are: a result line is there when its class has a result.
RecordShape ==
    <<"header">>
    \o (IF dhcpTests # <<>> THEN <<"DHCP Test">> ELSE <<>>)
    \o (IF pingTests # <<>> THEN <<"Ping Test">> ELSE <<>>)
    \o <<"Total Tests", "DHCP Success Rate", "Ping Success Rate", "delimiter">>

Recorded ==
    IF pc \in {"dhcp_count", "dhcp_success", "dhcp_update"}
    THEN dhcpTests[Len(dhcpTests)]
    ELSE pingTests[Len(pingTests)]

\* C19: serving a lease fire appends exactly one entry, the result of the
\* full probe, to dhcpTests and leaves pingTests unchanged; serving a
\* connectivity fire appends exactly one entry to pingTests and leaves
\* dhcpTests unchanged; each adds exactly 1 to totalCount, and 1 to
\* successCount if and only if the recorded entry has Success.
C19_MatchingHistoryOnly ==
    [][/\ SchedulerLeaves("dhcp_append") =>
            /\ dhcpTests' = Append(dhcpTests, test)
            /\ test.Success = runTest(env).Success
            /\ UNCHANGED <<pingTests, totalCount, successCount>>
       /\ SchedulerLeaves("ping_append") =>
            /\ pingTests' = Append(pingTests, test)
            /\ test.DHCPRenewTime = 0
            /\ UNCHANGED <<dhcpTests, totalCount, successCount>>
       /\ dhcpTests' # dhcpTests => pc = "dhcp_append"
       /\ pingTests' # pingTests => pc = "ping_append"
       /\ (SchedulerLeaves("dhcp_count") \/ SchedulerLeaves("ping_count")) =>
            /\ totalCount' = totalCount + 1
            /\ totalCount' = Len(dhcpTests) + Len(pingTests)
            /\ UNCHANGED <<dhcpTests, pingTests, successCount>>
       /\ totalCount' # totalCount => pc \in {"dhcp_count", "ping_count"}
       /\ (SchedulerLeaves("dhcp_success") \/ SchedulerLeaves("ping_success")) =>
            /\ successCount' = successCount + (IF Recorded.Success THEN 1 ELSE 0)
            /\ successCount' = NumSuccessful(dhcpTests) + NumSuccessful(pingTests)
            /\ UNCHANGED <<dhcpTests, pingTests, totalCount>>
       /\ successCount' # successCount => pc \in {"dhcp_success", "ping_success"}
       /\ (SchedulerLeaves("dhcp_update") \/ SchedulerLeaves("ping_update")) =>
            /\ pc' = "select"
            /\ aggregator' = aggregator
      ]_vars

\* A failed lease result and then a successful connectivity result were
\* recorded: one entry in each history, 2 tests, 1 success.
C19_Witness ==
    /\ pc = "select"
    /\ Len(dhcpTests) = 1
    /\ ~dhcpTests[1].Success
    /\ Len(pingTests) = 1
    /\ pingTests[1].Success
    /\ pingTests[1].DHCPRenewTime = 0
    /\ totalCount = 2
    /\ successCount = 1

\* s is t or extends t at its end.
IsPrefix(t, s) == Len(t) <= Len(s) /\ SubSeq(s, 1, Len(t)) = t

\* C20: no step removes, reorders or modifies an entry of a history (its
\* Success flag included): each history only grows at its end, and
\* totalCount and successCount never decrease.
C20_AppendOnly ==
    [][/\ IsPrefix(dhcpTests, dhcpTests')
       /\ IsPrefix(pingTests, pingTests')
       /\ Len(dhcpTests') <= Len(dhcpTests) + 1
       /\ Len(pingTests') <= Len(pingTests) + 1
       /\ totalCount' >= totalCount
       /\ successCount' >= successCount
      ]_vars

\* Two lease results are in the history in the order they were recorded, a
\* failure and then a success, after a log write was served as well.
C20_Witness ==
    /\ Len(dhcpTests) = 2
    /\ ~dhcpTests[1].Success
    /\ dhcpTests[2].Success
    /\ pc = "select"
    /\ totalCount = 2
    /\ successCount = 1
    /\ logFile # <<>>

\* No case of the select is ready and none is being served.
Idle == pc = "select" /\ \A t \in Tickers : ~timers[t].buffered

\* C12: the lease trigger becomes due every 5 minutes, the connectivity
\* trigger every minute, the dashboard emission every second (interactive
\* mode only) and the log emission every minute, counted from the creation
\* of the tickers; no probe runs and nothing is logged before the first
\* period of its trigger has elapsed; and when every due fire has been
\* served, the connectivity history has 5 entries for each entry of the
\* lease history.
C12_Periods ==
    pc # "start" =>
        /\ timers["dhcp"].when = (now \div (5 * 60) + 1) * (5 * 60)
        /\ timers["ping"].when = (now \div 60 + 1) * 60
        /\ timers["file"].when = (now \div 60 + 1) * 60
        /\ timers["ui"] = IF headless THEN NoTicker
                          ELSE [when |-> now + 1, buffered |-> timers["ui"].buffered]
        /\ (served["dhcp"] > 0 \/ timers["dhcp"].buffered) => now >= 5 * 60
        /\ (served["ping"] > 0 \/ timers["ping"].buffered) => now >= 60
        /\ (logFile # <<>> \/ timers["file"].buffered) => now >= 60
        /\ served["dhcp"] <= now \div (5 * 60)
        /\ served["ping"] <= now \div 60
        /\ (Idle /\ served["dhcp"] = now \div (5 * 60)
                 /\ served["ping"] = now \div 60) =>
              /\ Len(dhcpTests) = now \div (5 * 60)
              /\ Len(pingTests) = now \div 60
              /\ Len(pingTests) \div 5 = Len(dhcpTests)

\* Five minutes and two probes of 2 s after the start every due fire has
\* been served: one lease result and five connectivity results.
C12_Witness ==
    /\ Idle
    /\ now = 5 * 60 + 2 * ShortProbe
    /\ Len(dhcpTests) = 1
    /\ Len(pingTests) = 5
    /\ served["ping"] = 5

\* The fires of ticker t the loop has received and whose case has run to
\* its end.
Completed(t) ==
    served[t] - (IF pc \in {t \o "_append", t \o "_count", t \o "_success",
                            t \o "_update"} THEN 1 ELSE 0)

\* The entries a case in progress has already appended.
Appending(t) ==
    IF pc \in {t \o "_count", t \o "_success", t \o "_update"} THEN 1 ELSE 0

\* C13: each history has one entry for each fire of its ticker that was
\* served to completion (plus the entry of the fire being served, once it is
\* appended); the result being recorded is that of one run of the probe of
\* that ticker; totalCount counts the same fires.
C13_OneActionPerFire ==
    /\ Len(dhcpTests) = Completed("dhcp") + Appending("dhcp")
    /\ Len(pingTests) = Completed("ping") + Appending("ping")
    /\ pc \in {"start", "select"} =>
          /\ Len(dhcpTests) = served["dhcp"]
          /\ Len(pingTests) = served["ping"]
          /\ totalCount = served["dhcp"] + served["ping"]
    /\ pc = "dhcp_append" => test = runTest(env)
    /\ pc = "ping_append" => test = runConnectivityTest(env)
    /\ pc \in {"dhcp_count", "dhcp_success", "dhcp_update"} =>
          dhcpTests[Len(dhcpTests)] = test
    /\ pc \in {"ping_count", "ping_success", "ping_update"} =>
          pingTests[Len(pingTests)] = test

\* The first lease fire is being served, its result not yet appended, while
\* the fifth connectivity fire is due and waits: four connectivity fires
\* were served, four entries.
C13_Witness ==
    /\ pc = "dhcp_append"
    /\ served["dhcp"] = 1
    /\ dhcpTests = <<>>
    /\ timers["ping"].buffered
    /\ served["ping"] = 4
    /\ Len(pingTests) = 4
    /\ totalCount = 4

\* The state of the scheduler: Idle before startMonitoring has created its
\* tickers, Stopped when the process is gone or the loop was left, Running
\* otherwise.
SchedulerState ==
    IF ~alive \/ pc = "stopped" THEN "Stopped"
    ELSE IF pc = "start" THEN "Idle"
    ELSE "Running"

\* C14: Running is entered from Idle only, by the start, and is left only
\* by the termination of the process, a step that is no step of the loop
\* (it changes no field, no file and no view); Stopped is never left.
C14_RunsUntilKilled ==
    [][/\ SchedulerState = "Running" =>
            \/ SchedulerState' = "Running"
            \/ alive /\ ~alive' /\ monitor' = monitor
       /\ SchedulerState = "Idle" =>
            \/ SchedulerState' = "Running" /\ pc' = "select"
            \/ alive /\ ~alive' /\ monitor' = monitor
       /\ SchedulerState = "Stopped" => SchedulerState' = "Stopped"
       /\ pc' # "stopped"
      ]_vars

\* A lease probe failed and a log write failed, the loop went back to its
\* select both times, and then the process was terminated.
C14_Witness ==
    /\ ~alive
    /\ pc = "select"
    /\ Len(dhcpTests) = 1
    /\ ~dhcpTests[1].Success
    /\ stdout = 1
    /\ totalCount = 1

\* The step receives the tick of ticker t: the fire of t is served.  (The
\* step that starts a probe covers the probe's commands, during which the
\* ticker may tick again.)
Received(t) ==
    IF t \in DOMAIN served THEN served'[t] # served[t]
    ELSE timers[t].buffered /\ ~timers'[t].buffered

\* The step ends the action of a served fire of t.
Completes(t) ==
    IF t \in {"dhcp", "ping"} THEN SchedulerLeaves(t \o "_update")
    ELSE Received(t)

\* C16 as stated: when the action of a served fire of a trigger completes,
\* the trigger is rescheduled for now + period: no fire of it is pending and
\* none becomes due before a full period has passed.
C16_RescheduledFromCompletion ==
    [][\A t \in Created :
          Completes(t) =>
              /\ ~timers'[t].buffered
              /\ timers'[t].when >= now' + Period(t)
      ]_vars

\* C16 amended: the fires of a trigger are due at the multiples of its
\* period after the creation of the tickers, whenever earlier fires were
\* served; a trigger is served only for a fire that is due and waits, one
\* service for one waiting fire, so never more often than once per period
\* elapsed; a fire that became due during an action waits until the loop is
\* back at its select.
C16_FixedCadence ==
    [][\A t \in Created :
          /\ timers'[t].when % Period(t) = 0
          /\ now' < timers'[t].when
          /\ timers'[t].when <= now' + Period(t)
          /\ (~timers[t].buffered /\ timers'[t].buffered) =>
                /\ now < timers[t].when
                /\ timers[t].when <= now'
          /\ Received(t) => timers[t].buffered /\ pc = "select"
          /\ (timers[t].buffered /\ ~timers'[t].buffered) => Received(t)
          /\ (t \in DOMAIN served) =>
                /\ served'[t] \in {served[t], served[t] + 1}
                /\ served'[t] <= now' \div Period(t)
          /\ (t = "ui" /\ DashboardInvoked /\ pc = "select") => Received(t)
          /\ (t = "file" /\ LogWriterInvoked) => Received(t)
      ]_vars

\* A connectivity probe that began at 1:00 took 61 s; the fire that became
\* due at 2:00 was served as soon as the first had completed, at 2:01.
C16_Witness ==
    /\ pc = "ping_append"
    /\ served["ping"] = 2
    /\ Len(pingTests) = 1
    /\ now = PingPeriod + LongProbe + ShortProbe
    /\ timers["ping"].when = 3 * PingPeriod

\* The step the loop takes next inside a case.
NextInCase ==
    [p \in {"dhcp_append", "dhcp_count", "dhcp_success", "dhcp_update",
            "ping_append", "ping_count", "ping_success", "ping_update"} |->
        CASE p = "dhcp_append"  -> "dhcp_count"
          [] p = "dhcp_count"   -> "dhcp_success"
          [] p = "dhcp_success" -> "dhcp_update"
          [] p = "ping_append"  -> "ping_count"
          [] p = "ping_count"   -> "ping_success"
          [] p = "ping_success" -> "ping_update"
          [] OTHER              -> "select"]

\* C17: a fire is served only when the loop is at its select, so while the
\* action of a probe executes (even longer than a period) nothing else
\* starts: no tick is received, no log is written, the other history is
\* not touched, the action goes on step by step to its end, and the fires
\* that are due wait.
C17_OneActionAtATime ==
    [][/\ \A t \in Tickers : Received(t) => pc = "select"
       /\ pc \in DOMAIN NextInCase =>
            /\ served' = served
            /\ logFile' = logFile /\ stdout' = stdout
            /\ pc' \in {pc, NextInCase[pc]}
            /\ \A t \in Tickers : timers[t].buffered => timers'[t].buffered
            /\ pc \in {"dhcp_append", "dhcp_count", "dhcp_success",
                       "dhcp_update"} => pingTests' = pingTests
            /\ pc \in {"ping_append", "ping_count", "ping_success",
                       "ping_update"} => dhcpTests' = dhcpTests
            /\ pc \notin {"dhcp_update", "ping_update"} =>
                  Len(updates') <= Len(updates)
       /\ pc' \in {"dhcp_append", "ping_append"} => pc \in {"select", pc'}
      ]_vars

\* A connectivity probe that began at 4:00 took 61 s, longer than its
\* period: at its end a fire of every ticker is due and waits.
C17_Witness ==
    /\ pc = "ping_append"
    /\ now = 4 * PingPeriod + LongProbe
    /\ timers["ping"].buffered
    /\ timers["dhcp"].buffered
    /\ timers["file"].buffered
    /\ ~headless
    /\ timers["ui"].buffered

\* The totals of the records in the log, in the order they were written.
LoggedTotals == SelectSeq([i \in 1..Len(logFile) |->
                              IF logFile[i].k = "Total Tests"
                              THEN logFile[i].total ELSE -1],
                          LAMBDA x : x >= 0)

\* C18: a fire that is due and waits is not lost when the fire of another
\* ticker is served: it goes on waiting until it is served itself; whenever
\* the loop is at its select the case of every waiting fire can be chosen
\* (the dashboard case once its queue has room); and in every run in which
\* the program keeps running every waiting fire is served.
C18_DueFiresIndependent ==
    /\ [][\A t \in Tickers :
            timers[t].buffered => (timers'[t].buffered \/ Received(t))]_vars
    /\ [](pc = "select" =>
            /\ timers["dhcp"].buffered => ENABLED ServeDhcp
            /\ timers["ping"].buffered => ENABLED ServePing
            /\ timers["file"].buffered => ENABLED ServeFile
            /\ (timers["ui"].buffered /\ Len(updates) < MaxQueue) =>
                  ENABLED ServeUi)
    /\ \A t \in {"dhcp", "ping"} :
          (timers[t].buffered /\ pc # t \o "_append") ~> (pc = t \o "_append")
    /\ \A t \in {"ui", "file"} :
          timers[t].buffered ~> ~timers[t].buffered

\* Both orders: at 1:00 the log write was served before the connectivity
\* probe that was due at the same time (the record shows 0 tests), at 2:00
\* the connectivity probe was served before the log write (2 tests).
C18_Witness ==
    /\ LoggedTotals = <<0, 2>>
    /\ Len(pingTests) = 2
    /\ now = 2 * PingPeriod + ShortProbe
    /\ Idle

\* What updateUI formats from an aggregator without any recording.
EmptyClosure ==
    [stats |-> [title |-> "WiFi Quality Monitor - NOC Watch -",
                total |-> 0, success |-> 0, failure |-> 0, successRate |-> 0,
                classRates |-> <<0, 0>>],
     chart |-> [dhcp |-> <<>>, ping |-> <<>>],
     log |-> [dhcp |-> <<>>, ping |-> <<>>]]

\* What a complete log write appends from an aggregator without any
\* recording.
EmptyRecord ==
    <<[k |-> "header"],
      [k |-> "Total Tests", total |-> 0, success |-> 0, rate |-> 0],
      [k |-> "DHCP Success Rate", rate |-> 0],
      [k |-> "Ping Success Rate", rate |-> 0],
      [k |-> "delimiter"]>>

NoHistory == dhcpTests = <<>> /\ pingTests = <<>>

\* C21: a dashboard update (the initial one, that of a probe case, that of
\* the uiTicker), its execution by the event loop and a log write, complete
\* or failed, leave both histories, totalCount and successCount unchanged
\* and do not end the loop; with no history recorded every dashboard update
\* hands over 0 tests, 0 successes, rates 0 and empty result lists, and every
\* log write appends the record of 0 tests (a failed one a beginning of it),
\* however many emissions came before.
C21_EmissionReadOnly ==
    [][/\ (DashboardInvoked \/ LogWriterInvoked \/ views' # views) =>
            /\ aggregator' = aggregator
            /\ pc' \in {pc, "select"}
       /\ (DashboardInvoked /\ NoHistory) =>
            /\ totalCount = 0 /\ successCount = 0
            /\ handed = EmptyClosure
       /\ (LogWriterInvoked /\ NoHistory) =>
            /\ IsPrefix(appended, EmptyRecord)
            /\ stdout' = stdout => appended = EmptyRecord
            /\ SubSeq(logFile', 1, Len(logFile)) = logFile
      ]_vars

\* With no history recorded: two complete log writes and a failed one were
\* made, the dashboard shows an update of 0 tests and the next one is queued.
C21_Witness ==
    /\ NoHistory
    /\ totalCount = 0
    /\ successCount = 0
    /\ pc = "select"
    /\ logFile = EmptyRecord \o EmptyRecord
    /\ stdout = 1
    /\ ~headless
    /\ Displayed = EmptyClosure
    /\ updates = <<EmptyClosure>>

\* main creates no application and no widget: the fields keep their zero
\* value and nothing is queued for an event loop.
NoDashboard ==
    /\ updates = <<>>
    /\ statsView = ""
    /\ chartView = ""
    /\ logView = ""

\* C22: in headless mode there is no dashboard at any time (no application,
\* no widget, nothing handed over), the updateUI that ends a lease or
\* connectivity case has no effect at all (the loop is back at its select
\* with the aggregator as the case left it), the uiTicker case is never
\* served, and the only thing a step writes outside the aggregator is the
\* log file (and the error line of a failed log write).
C22_HeadlessNoDashboard ==
    /\ [](headless => NoDashboard)
    /\ [][headless =>
            /\ ~DashboardInvoked
            /\ UNCHANGED <<updates, views>>
            /\ (SchedulerLeaves("dhcp_update") \/ SchedulerLeaves("ping_update")) =>
                  /\ pc' = "select"
                  /\ UNCHANGED <<aggregator, logFile, stdout>>
            /\ (pc = "select" /\ pc' = "select") => LogWriterInvoked
            /\ pc' # "stopped"
         ]_vars

\* Headless: a lease result and a connectivity result were recorded, each
\* case ending with its updateUI, and the log holds one complete record of
\* the 2 tests.
C22_Witness ==
    /\ headless
    /\ pc = "select"
    /\ Len(dhcpTests) = 1
    /\ Len(pingTests) = 1
    /\ totalCount = 2
    /\ NoDashboard
    /\ stdout = 0
    /\ [i \in 1..Len(logFile) |-> logFile[i].k] = RecordShape
    /\ TotalsLine(logFile) = {<<2, successCount>>}

\* The aggregator of the loop, as a record.
Aggregator ==
    [dhcpTests |-> dhcpTests, pingTests |-> pingTests,
     successCount |-> successCount, totalCount |-> totalCount]

\* C23: the headless loop and the interactive loop that have served the
\* same lease and connectivity fires with the same probe outcomes have the
\* same lease history, connectivity history, totalCount and successCount
\* whenever the loop is between two cases (or at the updateUI that ends a
\* case), whatever dashboard updates and log writes either has made in
\* between.
C23_ModeIndependent == SnapshotPoint => Aggregator = twin

\* The interactive loop has recorded a failed lease result and a successful
\* connectivity result, with a log write made and a dashboard update shown
\* between the two; the aggregator of the headless loop is the same.
C23_Witness ==
    /\ ~headless
    /\ pc = "select"
    /\ Len(dhcpTests) = 1
    /\ ~dhcpTests[1].Success
    /\ Len(pingTests) = 1
    /\ pingTests[1].Success
    /\ TotalsLine(logFile) = {<<1, 0>>}
    /\ statsView.total = 1
    /\ twin = [dhcpTests |-> dhcpTests, pingTests |-> pingTests,
               successCount |-> 1, totalCount |-> 2]

\* The Success flags of the entries of a history, in order.
Flags(tests) == [i \in 1..Len(tests) |-> tests[i].Success]

\* Everything of a result but its IPv6 reachability.
SansIPv6(t) ==
    [DHCPRenewTime |-> t.DHCPRenewTime, IPv4Connectivity |-> t.IPv4Connectivity,
     Latency |-> t.Latency, Success |-> t.Success]

\* C24: two loops that serve the same fires with the same lease-renewal
\* outcomes, IPv4 reachability and latencies but any IPv6 reachability
\* results record entries that differ in nothing but IPv6Connectivity: the
\* same Success flag for every entry (that of the result being recorded
\* included), the same totalCount, the same successCount and the same
\* overall and class success rates.
C24_IPv6NonInterference ==
    /\ pc \in {"dhcp_append", "dhcp_count", "dhcp_success", "dhcp_update"} =>
          SansIPv6(test) = SansIPv6(twin.dhcpTests[Len(twin.dhcpTests)])
    /\ pc \in {"ping_append", "ping_count", "ping_success", "ping_update"} =>
          SansIPv6(test) = SansIPv6(twin.pingTests[Len(twin.pingTests)])
    /\ SnapshotPoint =>
          /\ Flags(dhcpTests) = Flags(twin.dhcpTests)
          /\ Flags(pingTests) = Flags(twin.pingTests)
          /\ \A i \in 1..Len(dhcpTests) :
                SansIPv6(dhcpTests[i]) = SansIPv6(twin.dhcpTests[i])
          /\ \A i \in 1..Len(pingTests) :
                SansIPv6(pingTests[i]) = SansIPv6(twin.pingTests[i])
          /\ totalCount = twin.totalCount
          /\ successCount = twin.successCount
          /\ successRate = Rate(twin.successCount, twin.totalCount)
          /\ dhcpSuccessRate
                = Rate(Successes(twin.dhcpTests), Len(twin.dhcpTests))
          /\ pingSuccessRate
                = Rate(Successes(twin.pingTests), Len(twin.pingTests))

\* A lease fire and a connectivity fire were served; in one loop IPv6 was
\* unreachable at the first and reachable at the second, in the other loop
\* the reverse: both count 2 tests and 2 successes.
C24_Witness ==
    /\ pc = "select"
    /\ Len(dhcpTests) = 1
    /\ Len(pingTests) = 1
    /\ ~dhcpTests[1].IPv6Connectivity
    /\ twin.dhcpTests[1].IPv6Connectivity
    /\ pingTests[1].IPv6Connectivity
    /\ ~twin.pingTests[1].IPv6Connectivity
    /\ successCount = 2
    /\ twin.successCount = 2
    /\ successRate = 10000

\* The closure handed to the dashboard last: the newest one in the queue,
\* or the one the event loop executed last (before the first hand-over: the
\* texts main has set).
LastHanded == IF updates # <<>> THEN updates[Len(updates)] ELSE Displayed

\* What the "latest result" part of a closure shows of a recorded entry.
LatestDhcp(t) == <<[DHCPRenew |-> t.DHCPRenewTime, Success |-> t.Success]>>
LatestPing(t) ==
    <<[IPv4 |-> t.IPv4Connectivity, IPv6 |-> t.IPv6Connectivity,
       Latency |-> t.Latency, Success |-> t.Success]>>

\* C25: in interactive mode the loop leaves start by handing over the
\* dashboard update of the empty state; a lease or connectivity case goes
\* from its probe through append, totalCount, successCount and updateUI
\* back to the select with no tick received, no log write and no other
\* hand-over in between, and its updateUI hands over a closure that counts
\* the new result and shows it as the latest of its class (and in the chart
\* while the class has at most 10 entries); so whenever the loop is at its
\* select the closure handed over last is that of the aggregator as it is.
C25_RecordingThenDashboard ==
    /\ []((~headless /\ pc = "select") => LastHanded = Closure)
    /\ [][~headless =>
            /\ SchedulerLeaves("start") =>
                  /\ DashboardInvoked
                  /\ handed = EmptyClosure
                  /\ pc' = "select"
                  /\ aggregator = <<<<>>, <<>>, 0, 0>>
            /\ pc' \in {"dhcp_append", "ping_append"} => pc \in {"select", pc'}
            /\ pc \in DOMAIN NextInCase =>
                  /\ pc' \in {pc, NextInCase[pc]}
                  /\ ~LogWriterInvoked
                  /\ DashboardInvoked => pc \in {"dhcp_update", "ping_update"}
            /\ SchedulerLeaves("dhcp_update") =>
                  /\ DashboardInvoked
                  /\ handed = Closure
                  /\ handed.stats.total = Len(dhcpTests) + Len(pingTests)
                  /\ handed.log.dhcp = LatestDhcp(test)
                  /\ Len(dhcpTests) <= ChartLimit =>
                        handed.chart.dhcp[Len(dhcpTests)].DHCP = test.DHCPRenewTime
            /\ SchedulerLeaves("ping_update") =>
                  /\ DashboardInvoked
                  /\ handed = Closure
                  /\ handed.stats.total = Len(dhcpTests) + Len(pingTests)
                  /\ handed.log.ping = LatestPing(test)
                  /\ Len(pingTests) <= ChartLimit =>
                        handed.chart.ping[Len(pingTests)].Latency = test.Latency
         ]_vars

\* Interactive mode, no log write made: a lease result and then a
\* connectivity result were recorded; the dashboard shows the update made
\* after the first and the update made after the second is queued.
C25_Witness ==
    /\ ~headless
    /\ pc = "select"
    /\ logFile = <<>>
    /\ stdout = 0
    /\ Len(dhcpTests) = 1
    /\ Len(pingTests) = 1
    /\ statsView.total = 1
    /\ logView.ping = <<>>
    /\ Len(updates) = 1
    /\ updates[1].stats.total = 2
    /\ updates[1].log.ping = LatestPing(pingTests[1])

====
